---- MODULE Spec2Model ----
(***************************************************************************)
(* Deployment-wave orchestration of the IoT platform.                      *)
(*                                                                         *)
(* main.ts instantiates one CICDPipelineStack for the primary region and   *)
(* one per DR region.  Each CICDPipelineStack builds ONE CodePipeline and  *)
(* appends, for every environment and every region of its props, five      *)
(* waves (core, storage, insights, cross-cutting, data-identity), each     *)
(* wave holding one Stage with its `pre` approval steps.  The state        *)
(* machine below is the execution of those pipelines: waves of a pipeline  *)
(* run in the order in which they were added, a stage starts after all of  *)
(* its `pre` steps have completed, the stacks of a stage deploy            *)
(* concurrently, and a failed stack deployment stops the execution.        *)
(*                                                                         *)
(* Two further state machines share the module: the synthesis that turns   *)
(* process.env and the props of a pipeline stack into hosted-zone stacks   *)
(* and deployment targets (SpecResolver), and the health checks and        *)
(* failover records every IoTStack declares (SpecFailover).  Each          *)
(* specification moves its own variables and leaves the others alone.      *)
(***************************************************************************)
EXTENDS Integers, Sequences, FiniteSets, TLC

\* Number of pipeline executions that may be in flight together.
MaxRollouts == 1

\* Number of times the application is synthesized from one configuration.
MaxResolves == 2

----------------------------------------------------------------------------
(* Configuration: main.ts *)

primaryRegion == "eu-west-1"

drRegions == <<"eu-central-1", "eu-west-2">>

environments == <<"dev", "prod">>

\* new CICDPipelineStack(app, "iot-platform-cicd", {...})
PrimaryPipeline ==
  [ id |-> "iot-platform-cicd",
    deploymentRegions |-> <<primaryRegion>>,
    deploymentEnvironments |-> environments,
    isDrPipeline |-> FALSE ]

\* drRegions.forEach((drRegion) => new CICDPipelineStack(app, `iot-platform-dr-${drRegion}`, {...}))
DrPipeline(i) ==
  [ id |-> "iot-platform-dr-" \o drRegions[i],
    deploymentRegions |-> <<drRegions[i]>>,
    deploymentEnvironments |-> environments,
    isDrPipeline |-> TRUE ]

Pipelines == {PrimaryPipeline} \cup {DrPipeline(i) : i \in 1..Len(drRegions)}

\* The construct ids of the pipeline stacks.
PipelineIds == { p.id : p \in Pipelines }

----------------------------------------------------------------------------
(* Wave plan: CICDPipelineStack constructor *)

\* The (environment, region) pairs of a pipeline in the order of the nested
\* forEach loops: environment-major, region-minor.
Targets(p) ==
  LET R == Len(p.deploymentRegions)
      E == Len(p.deploymentEnvironments)
  IN  [ i \in 1..(E * R) |->
          [ env    |-> p.deploymentEnvironments[((i - 1) \div R) + 1],
            region |-> p.deploymentRegions[((i - 1) % R) + 1] ] ]

AllTargets == UNION { {Targets(p)[i] : i \in DOMAIN Targets(p)} : p \in Pipelines }

\* The storage and insights waves added in the opposite order.
PhasesInsightsFirst ==
  <<"core", "insights", "storage", "cross-cutting", "data-identity">>

\* The five addWave calls of one loop iteration, in program order.
Phases == <<"core", "storage", "insights", "cross-cutting", "data-identity">>

\* pipeline.addWave(...) is called 5 times per target; wave k of the pipeline.
Waves(p) ==
  [ k \in 1..(Len(Phases) * Len(Targets(p))) |->
      [ target |-> Targets(p)[((k - 1) \div Len(Phases)) + 1],
        phase  |-> Phases[((k - 1) % Len(Phases)) + 1] ] ]

\* new pipelines.ManualApprovalStep(`ApproveDeployment-${env}-${region}`)
SharedGate(t) == <<"ApproveDeployment", t.env, t.region>>

\* new pipelines.ManualApprovalStep(`ApproveDataIdentityDeployment-${env}-${region}`)
DataIdentityGate(t) == <<"ApproveDataIdentityDeployment", t.env, t.region>>

\* The core wave always takes the branch without the DR approval.
PreCoreUngated(p, k) ==
  LET w == Waves(p)[k]
      dr == IF p.isDrPipeline /\ w.phase # "core"
              THEN {SharedGate(w.target)} ELSE {}
  IN  IF w.phase = "data-identity"
        THEN dr \cup {DataIdentityGate(w.target)}
        ELSE dr

\* The DR branch of the data-identity wave passes the DR approval only.
PreDrDropsDataIdentity(p, k) ==
  LET w == Waves(p)[k]
  IN  IF p.isDrPipeline
        THEN {SharedGate(w.target)}
        ELSE IF w.phase = "data-identity"
               THEN {DataIdentityGate(w.target)}
               ELSE {}

\* The cross-cutting wave carries the data-identity approval as well.
PreCrossCuttingGated(p, k) ==
  LET w == Waves(p)[k]
      dr == IF p.isDrPipeline THEN {SharedGate(w.target)} ELSE {}
  IN  IF w.phase \in {"cross-cutting", "data-identity"}
        THEN dr \cup {DataIdentityGate(w.target)}
        ELSE dr

\* The `pre` steps of the stage added to wave k of pipeline p.
Pre(p, k) ==
  LET w == Waves(p)[k]
      dr == IF p.isDrPipeline THEN {SharedGate(w.target)} ELSE {}
  IN  IF w.phase = "data-identity"
        THEN dr \cup {DataIdentityGate(w.target)}
        ELSE dr

\* The ManualApprovalStep objects a pipeline constructs.
GatesOf(p) ==
  { DataIdentityGate(Targets(p)[i]) : i \in DOMAIN Targets(p) }
    \cup (IF p.isDrPipeline
            THEN { SharedGate(Targets(p)[i]) : i \in DOMAIN Targets(p) }
            ELSE {})

Gates == UNION { GatesOf(p) : p \in Pipelines }

\* The stacks each Stage class instantiates, by stack-name suffix; every
\* stage prefixes them with `${envName}-${region}`.
IotPlatformStageStacks ==
  {"iot-stack", "data-analytics-stack", "streaming-stack",
   "identity-stack", "cost-monitoring-stack"}

StoreStageStacks == {"data-lake-stack"}

InsightsStageStacks == {"analytics-stack", "dashboard-stack"}

CrossCuttingStageStacks == {"cost-monitoring-stack"}

DataIdentityStageStacks == {"data-analytics-stack", "identity-stack"}

\* The stage each wave receives through addStage.
StageStacks(phase) ==
  CASE phase = "core" -> IotPlatformStageStacks
    [] phase = "storage" -> StoreStageStacks
    [] phase = "insights" -> InsightsStageStacks
    [] phase = "cross-cutting" -> CrossCuttingStageStacks
    [] phase = "data-identity" -> DataIdentityStageStacks

\* The pipeline each stack builds: per wave its target, its phase, the `pre`
\* steps and the stacks of its stage.
Plan ==
  [ i \in PipelineIds |->
      LET p == CHOOSE q \in Pipelines : q.id = i
      IN  [ k \in DOMAIN Waves(p) |->
              [ target |-> Waves(p)[k].target,
                phase  |-> Waves(p)[k].phase,
                pre    |-> Pre(p, k),
                stacks |-> StageStacks(Waves(p)[k].phase) ] ] ]

\* The approval steps each pipeline holds.
PlanGates == [ i \in PipelineIds |-> GatesOf(CHOOSE q \in Pipelines : q.id = i) ]

StackNames == UNION { StageStacks(Phases[i]) : i \in DOMAIN Phases }

PhaseSet == { Phases[i] : i \in DOMAIN Phases }

----------------------------------------------------------------------------
(* State *)

VARIABLES
  status,   \* per pipeline: "idle", "running", "failed", "succeeded"
  pos,      \* per pipeline: index of the wave the execution is at
  done,     \* per pipeline: stacks of the current wave already deployed
  gate,     \* per ManualApprovalStep: "Pending" or "Approved"
  applied,  \* per target: the <<stack, phase>> deployments that succeeded
  failure   \* per pipeline: the reported failure, or NoFailure

vars == <<status, pos, done, gate, applied, failure>>

VARIABLES
  procEnv,      \* process.env: the CDK_*_ACCOUNT variables main.ts reads
  props,        \* CICDPipelineStackProps of the pipeline stack under construction
  rpc,          \* position of the synthesis: "idle", "zones", "targets", "done"
  zi,           \* index of environments.forEach in main.ts
  ei,           \* index of deploymentEnvironments.forEach
  ri,           \* index of deploymentRegions.forEach
  zones,        \* the HostedZoneStack constructions so far: env, account, region
  targets,      \* the stage environments so far: env, region, account
  prevTargets,  \* the targets of the preceding synthesis
  resolves      \* number of syntheses started

rvars == <<procEnv, props, rpc, zi, ei, ri, zones, targets, prevTargets, resolves>>

VARIABLES
  domain,        \* the record name the health checks and records belong to
  PRIMARY_REGION,\* process.env.PRIMARY_REGION at synthesis
  health,        \* per region: status of its health check, run of contrary probes
  hist,          \* per region: the latest probe results, newest last
  route,         \* the region whose record the name currently resolves to
  derivedFrom    \* the route before the latest derivation; "none" after a probe

fvars == <<domain, PRIMARY_REGION, health, hist, route, derivedFrom>>

\* A value JavaScript reports as undefined.
Undefined == "<undefined>"

VARIABLES
  hostedZones,   \* the Route 53 hosted zones that exist
  healthChecks,  \* the Route 53 health checks that exist
  records        \* the failover record sets that exist

dvars == <<hostedZones, healthChecks, records>>

VARIABLES
  event,      \* the EventBridge event the device-tagger handler was invoked with
  hpc,        \* position of the handler
  thingName,  \* let thingName
  tenantId,   \* let tenantId
  calls,      \* the AWS API calls the handler has sent, oldest first
  result      \* what the handler returned

tvars == <<event, hpc, thingName, tenantId, calls, result>>

NoFailure ==
  [target |-> [env |-> "none", region |-> "none"], phase |-> "none", stack |-> "none"]

Init ==
  /\ status = [i \in PipelineIds |-> "idle"]
  /\ pos = [i \in PipelineIds |-> 1]
  /\ done = [i \in PipelineIds |-> {}]
  /\ gate = [g \in Gates |-> "Pending"]
  /\ applied = [t \in AllTargets |-> {}]
  /\ failure = [i \in PipelineIds |-> NoFailure]

----------------------------------------------------------------------------
(* DNS resources: HostedZoneStack and the hosted-zone lookup, health check  *)
(* and failover record of IoTStack                                          *)

\* JavaScript truthiness of a string or undefined.
Truthy(x) == x # Undefined /\ x # ""

\* const domainName = props?.domainName || `iot-${envName}.example.com`
domainName(envName) == "iot-" \o envName \o ".example.com"

\* region === (process.env.PRIMARY_REGION || "eu-west-1")
isPrimaryRegion(region, envValue) ==
  region = (IF Truthy(envValue) THEN envValue ELSE "eu-west-1")

\* failover: isPrimaryRegion ? "PRIMARY" : "SECONDARY"
failover(region, envValue) ==
  IF isPrimaryRegion(region, envValue) THEN "PRIMARY" ELSE "SECONDARY"

\* The values process.env.PRIMARY_REGION may have when the pipelines are
\* synthesized: unset, a configured region, a region that is not configured.
PrimaryRegionSettings == {Undefined, "eu-central-1", "us-east-1"}

\* The position of the first sep in str at or after i; Len(str) + 1 if none.
indexOf(str, sep, i) ==
  LET hits == { j \in i..Len(str) : SubSeq(str, j, j) = sep }
  IN  IF hits = {} THEN Len(str) + 1
      ELSE CHOOSE j \in hits : \A h \in hits : j <= h

RECURSIVE splitFrom(_, _, _)
splitFrom(str, sep, i) ==
  LET j == indexOf(str, sep, i)
  IN  IF j > Len(str)
        THEN << SubSeq(str, i, Len(str)) >>
        ELSE << SubSeq(str, i, j - 1) >> \o splitFrom(str, sep, j + 1)

\* String.prototype.split with a one-character separator.
split(str, sep) == splitFrom(str, sep, 1)

\* const resourcePrefix = `${envName}-${region}`; stackName: `${resourcePrefix}-<suffix>`
stackName(t, suffix) == t.env \o "-" \o t.region \o "-" \o suffix

\* The environment name is the part of the stack name after the last "-".
getStackInfoLastPart(name, region) ==
  LET parts == split(name, "-")
  IN  [ envName |-> IF Len(parts) > 0 THEN parts[Len(parts)] ELSE "dev",
        region  |-> region ]

\* getStackInfo of IoTStack: envName is parts[0] of stackName.split("-"),
\* region is this.region.
getStackInfo(name, region) ==
  LET parts == split(name, "-")
  IN  [ envName |-> IF Len(parts) > 0 THEN parts[1] ELSE "dev",
        region  |-> region ]

\* new HostedZoneStack(app, `${env}-hosted-zone-stack`, {env: {region: primaryRegion},
\* domainName: `iot-${env}.example.com`}): the zone the stack declares.
HostedZoneOf(env) ==
  [ zoneName  |-> domainName(env),
    stackName |-> env \o "-hosted-zone-stack",
    region    |-> primaryRegion ]

\* Every deployment of the stack creates a hosted zone.
DeployHostedZoneStackCreatesAgain(env) ==
  /\ Cardinality(hostedZones) < 2 * Len(environments)
  /\ hostedZones' = hostedZones \cup
        { [ zone |-> HostedZoneOf(env), hostedZoneId |-> Cardinality(hostedZones) + 1 ] }
  /\ UNCHANGED <<healthChecks, records>>

\* cdk deploy of the hosted-zone stack of env: the first deployment creates the
\* stack with its zone, a later one finds the stack as declared and changes nothing.
DeployHostedZoneStack(env) ==
  /\ hostedZones' =
        IF \E z \in hostedZones : z.zone.stackName = HostedZoneOf(env).stackName
          THEN hostedZones
          ELSE hostedZones \cup
                 { [ zone |-> HostedZoneOf(env), hostedZoneId |-> Cardinality(hostedZones) + 1 ] }
  /\ UNCHANGED <<healthChecks, records>>

\* The lookup answers with a placeholder when no zone has the name.
fromLookupDummy(zs, name) ==
  IF \E z \in zs : z.zone.zoneName = name
    THEN { z \in zs : z.zone.zoneName = name }
    ELSE { [ zone |-> [zoneName |-> name, stackName |-> "none", region |-> "none"],
             hostedZoneId |-> 0 ] }

\* HostedZone.fromLookup(this, "IoTHostedZone", {domainName}): the hosted zones
\* of that name; the lookup succeeds when there is exactly one.
fromLookup(zs, name) == { z \in zs : z.zone.zoneName = name }

\* The IoTStack of every target: its stack name, and the environment name
\* and region its constructor works with.
IotStacks ==
  [ t \in AllTargets |->
      [ stackName |-> stackName(t, "iot-stack"),
        info      |-> getStackInfo(stackName(t, "iot-stack"), t.region) ] ]

\* new route53.HealthCheck(this, "IoTEndpointHealthCheck", {fqdn, ...}) of an
\* IoTStack with stack info i.
IoTEndpointHealthCheck(i) ==
  [ healthCheckId |-> i.envName \o "-" \o i.region,
    fqdn |-> domainName(i.envName) ]

\* new route53.CfnRecordSet(this, "IoTEndpointRecord", {...}) of an IoTStack
\* with stack info i, in hosted zone z, synthesized under envValue.
IoTEndpointRecord(i, z, envValue) ==
  [ name          |-> domainName(i.envName),
    failover      |-> failover(i.region, envValue),
    healthCheckId |-> IoTEndpointHealthCheck(i).healthCheckId,
    hostedZoneId  |-> z.hostedZoneId,
    setIdentifier |-> i.envName \o "-" \o i.region \o "-endpoint" ]

\* The stack replaces the record sets of the zone by its own.
IoTStackResourcesReplace(t) ==
  LET i == IotStacks[t].info
  IN  /\ Cardinality(fromLookup(hostedZones, domainName(i.envName))) = 1
      /\ healthChecks' = {IoTEndpointHealthCheck(i)}
      /\ records' = { IoTEndpointRecord(i, z, PRIMARY_REGION) :
                        z \in fromLookup(hostedZones, domainName(i.envName)) }
      /\ UNCHANGED hostedZones

\* The Route 53 resources a deployment of the IoTStack of target t leaves
\* behind: with the hosted zone found, its health check and its record set.
IoTStackResources(t) ==
  LET i == IotStacks[t].info
  IN  /\ Cardinality(fromLookup(hostedZones, domainName(i.envName))) = 1
      /\ healthChecks' = healthChecks \cup {IoTEndpointHealthCheck(i)}
      /\ records' = records \cup
                      { IoTEndpointRecord(i, z, PRIMARY_REGION) :
                          z \in fromLookup(hostedZones, domainName(i.envName)) }
      /\ UNCHANGED hostedZones

\* What the deployment of stack s of target t does to the Route 53
\* resources: only the IoTStack declares any.
StackResources(t, s) ==
  IF s = "iot-stack" THEN IoTStackResources(t) ELSE UNCHANGED dvars

----------------------------------------------------------------------------
(* Gate evaluation *)

\* A stage starts as soon as any one of its `pre` steps has completed.
canProceedAnyGate(p, k) ==
  Plan[p.id][k].pre = {} \/ \E g \in Plan[p.id][k].pre : gate[g] = "Approved"

\* A stage may start when every one of its `pre` steps has completed.
canProceed(p, k) == \A g \in Plan[p.id][k].pre : gate[g] = "Approved"

\* approve(gateId) flips the gate.
ApproveGateToggles(gs, g) ==
  [gs EXCEPT ![g] = IF @ = "Pending" THEN "Approved" ELSE "Pending"]

\* approve(gateId): the gate is Approved afterwards, whatever it was before.
ApproveGate(gs, g) == [gs EXCEPT ![g] = "Approved"]

----------------------------------------------------------------------------
(* Actions *)

\* Rollout trigger: a pipeline execution starts at its first wave.
Trigger(p) ==
  /\ status[p.id] = "idle"
  /\ Cardinality({i \in PipelineIds : status[i] # "idle"}) < MaxRollouts
  /\ status' = [status EXCEPT ![p.id] = "running"]
  /\ UNCHANGED <<pos, done, gate, applied, failure>>

\* Approval signal of an operator for a gate of a rollout that has started.
Approve(p, g) ==
  /\ status[p.id] # "idle"
  /\ g \in PlanGates[p.id]
  /\ gate' = ApproveGate(gate, g)
  /\ UNCHANGED <<status, pos, done, applied, failure>>

\* Stack s of wave k of pipeline p may be deployed now.
CanApply(p, k, s) ==
  /\ status[p.id] = "running"
  /\ pos[p.id] = k
  /\ k \in DOMAIN Plan[p.id]
  /\ canProceed(p, k)
  /\ s \in Plan[p.id][k].stacks \ done[p.id]

\* The execution moves to the next wave with every successful deployment.
ApplyOkNoBarrier(p, s) ==
  LET k == pos[p.id]
      w == Plan[p.id][k]
  IN  /\ CanApply(p, k, s)
      /\ StackResources(w.target, s)
      /\ applied' = [applied EXCEPT ![w.target] = @ \cup {<<s, w.phase>>}]
      /\ done' = [done EXCEPT ![p.id] = {}]
      /\ pos' = [pos EXCEPT ![p.id] = k + 1]
      /\ status' = [status EXCEPT ![p.id] =
                      IF k = Len(Plan[p.id]) THEN "succeeded" ELSE @]
      /\ UNCHANGED <<gate, failure>>

\* A stack deployment of the current wave succeeds and leaves the stack's
\* resources behind.  The last one of the wave moves the execution to the
\* next wave, or ends it.
ApplyOk(p, s) ==
  LET k == pos[p.id]
      w == Plan[p.id][k]
      all == (done[p.id] \cup {s}) = w.stacks
  IN  /\ CanApply(p, k, s)
      /\ StackResources(w.target, s)
      /\ applied' = [applied EXCEPT ![w.target] = @ \cup {<<s, w.phase>>}]
      /\ done' = [done EXCEPT ![p.id] = IF all THEN {} ELSE @ \cup {s}]
      /\ pos' = [pos EXCEPT ![p.id] = IF all THEN k + 1 ELSE k]
      /\ status' = [status EXCEPT ![p.id] =
                      IF all /\ k = Len(Plan[p.id]) THEN "succeeded" ELSE @]
      /\ UNCHANGED <<gate, failure>>

\* A failed stack deployment is reported but the execution goes on.
ApplyFailKeepsRunning(p, s) ==
  LET k == pos[p.id]
      w == Plan[p.id][k]
  IN  /\ CanApply(p, k, s)
      /\ failure[p.id] = NoFailure
      /\ failure' = [failure EXCEPT ![p.id] =
                       [target |-> w.target, phase |-> w.phase, stack |-> s]]
      /\ UNCHANGED <<status, pos, done, gate, applied>>

\* A failed stack deployment puts the approvals of its pipeline back to Pending.
ApplyFailRelocks(p, s) ==
  LET k == pos[p.id]
      w == Plan[p.id][k]
  IN  /\ CanApply(p, k, s)
      /\ status' = [status EXCEPT ![p.id] = "failed"]
      /\ failure' = [failure EXCEPT ![p.id] =
                       [target |-> w.target, phase |-> w.phase, stack |-> s]]
      /\ gate' = [g \in Gates |-> IF g \in PlanGates[p.id] THEN "Pending" ELSE gate[g]]
      /\ UNCHANGED <<pos, done, applied>>

\* A stack deployment of the current wave fails: the execution stops there.
ApplyFail(p, s) ==
  LET k == pos[p.id]
      w == Plan[p.id][k]
  IN  /\ CanApply(p, k, s)
      /\ status' = [status EXCEPT ![p.id] = "failed"]
      /\ failure' = [failure EXCEPT ![p.id] =
                       [target |-> w.target, phase |-> w.phase, stack |-> s]]
      /\ UNCHANGED <<pos, done, gate, applied>>

\* The rollout is cancelled: the execution is stopped where it stands, also
\* while it waits for an approval, and what was deployed stays.
Cancel(p) ==
  /\ status[p.id] = "running"
  /\ status' = [status EXCEPT ![p.id] = "cancelled"]
  /\ UNCHANGED <<pos, done, gate, applied, failure>>

----------------------------------------------------------------------------
(* The idle state of the other state machines, and the rollout's Next *)

\* No synthesis is running.
ResolverIdle ==
  /\ procEnv = [v \in {} |-> Undefined]
  /\ props = [deploymentRegions |-> [defined |-> FALSE, value |-> <<>>],
              deploymentEnvironments |-> [defined |-> FALSE, value |-> <<>>],
              workloadAccountIds |-> FALSE]
  /\ rpc = "idle"
  /\ zi = 1
  /\ ei = 1
  /\ ri = 1
  /\ zones = <<>>
  /\ targets = <<>>
  /\ prevTargets = <<>>
  /\ resolves = 0

\* No health check is probed and no query is answered.
NoProbes ==
  /\ domain = "none"
  /\ health = [r \in {} |-> 0]
  /\ hist = [r \in {} |-> <<>>]
  /\ route = "none"
  /\ derivedFrom = "none"

FailoverIdle == PRIMARY_REGION = Undefined /\ NoProbes

\* No hosted zone, health check or record set exists.
DnsEmpty == hostedZones = {} /\ healthChecks = {} /\ records = {}

\* The device-tagger handler has not been invoked.
TaggerIdle ==
  /\ event = [detail |-> FALSE]
  /\ hpc = "idle"
  /\ thingName = Undefined
  /\ tenantId = Undefined
  /\ calls = <<>>
  /\ result = [statusCode |-> 0]

\* Nothing is deployed and no pipeline runs; the pipelines were synthesized
\* under some setting of PRIMARY_REGION.
RolloutInit ==
  /\ Init
  /\ ResolverIdle
  /\ PRIMARY_REGION \in PrimaryRegionSettings
  /\ NoProbes
  /\ DnsEmpty
  /\ TaggerIdle

Next ==
  \/ \E p \in Pipelines : Trigger(p) /\ UNCHANGED <<rvars, fvars, dvars, tvars>>
  \/ \E p \in Pipelines : \E g \in PlanGates[p.id] :
       Approve(p, g) /\ UNCHANGED <<rvars, fvars, dvars, tvars>>
  \/ \E p \in Pipelines : \E s \in StackNames :
       ApplyOk(p, s) /\ UNCHANGED <<rvars, fvars, tvars>>
  \/ \E p \in Pipelines : \E s \in StackNames :
       ApplyFail(p, s) /\ UNCHANGED <<rvars, fvars, dvars, tvars>>
  \/ \E p \in Pipelines : Cancel(p) /\ UNCHANGED <<rvars, fvars, dvars, tvars>>
  \/ \E i \in DOMAIN environments :
       DeployHostedZoneStack(environments[i]) /\ UNCHANGED <<vars, rvars, fvars, tvars>>

allvars == <<vars, rvars, fvars, dvars, tvars>>

Spec == RolloutInit /\ [][Next]_allvars

\* CodePipeline runs an execution on by itself: while a stack of the current
\* wave is left to deploy and the wave's approvals are given, some deployment
\* of the wave ends, successfully or not.  Triggers, approvals, cancellations
\* and the deployment of the hosted-zone stacks are up to the operators.
Fairness ==
  \A p \in Pipelines :
    WF_allvars(\E s \in StackNames :
                 (ApplyOk(p, s) \/ (ApplyFail(p, s) /\ UNCHANGED dvars))
                   /\ UNCHANGED <<rvars, fvars, tvars>>)

SpecFair == Spec /\ Fairness

----------------------------------------------------------------------------
(* Vocabulary of the properties *)

TargetsOf(p) == { Targets(p)[i] : i \in DOMAIN Targets(p) }

DrTargets == UNION { TargetsOf(p) : p \in {q \in Pipelines : q.isDrPipeline} }

\* Some stack of phase ph of target t was deployed, or failed to deploy.
Started(t, ph) ==
  \/ \E s \in StackNames : <<s, ph>> \in applied[t]
  \/ \E p \in Pipelines : failure[p.id].target = t /\ failure[p.id].phase = ph

\* Every stack of phase ph of target t was deployed by that phase.
Completed(t, ph) == \A s \in StageStacks(ph) : <<s, ph>> \in applied[t]

\* The wave of pipeline p that holds phase ph of target t.
WaveIndex(p, t, ph) ==
  CHOOSE k \in DOMAIN Waves(p) : Waves(p)[k] = [target |-> t, phase |-> ph]

WaveOrder == <<"core", "storage", "insights", "cross-cutting", "data-identity">>

----------------------------------------------------------------------------
\* C1: for every target, in both modes, a phase of the order core, storage,
\* insights, cross-cutting, data-identity has started only if every earlier
\* phase of the same target has completed.
Inv_C1_WaveOrder ==
  \A t \in AllTargets : \A i, j \in DOMAIN WaveOrder :
    (i < j /\ Started(t, WaveOrder[j])) => Completed(t, WaveOrder[i])

Wit_C1 ==
  \E t \in AllTargets :
    /\ t.env = "prod"
    /\ Completed(t, "insights")
    /\ Started(t, "cross-cutting")

\* C2: for a DISASTER_RECOVERY target nothing is deployed, and no deployment
\* has been attempted, while its shared approval is Pending.
Inv_C2_DrGate ==
  \A t \in DrTargets :
    gate[SharedGate(t)] = "Pending" =>
      /\ applied[t] = {}
      /\ \A p \in Pipelines : failure[p.id].target # t

Wit_C2 ==
  \E t \in DrTargets : gate[SharedGate(t)] = "Approved" /\ applied[t] # {}

\* C3: the data-identity phase of a target starts only with its dedicated
\* approval given, and in DR mode only with the shared approval given too.
Inv_C3_DataIdentityGate ==
  \A t \in AllTargets :
    Started(t, "data-identity") =>
      /\ gate[DataIdentityGate(t)] = "Approved"
      /\ (t \in DrTargets => gate[SharedGate(t)] = "Approved")

Wit_C3 ==
  /\ \E t \in DrTargets : Completed(t, "data-identity")
  /\ \E t \in DrTargets :
       /\ Completed(t, "cross-cutting")
       /\ ~Started(t, "data-identity")
       /\ gate[SharedGate(t)] = "Approved"
       /\ gate[DataIdentityGate(t)] = "Pending"

\* C4: the identity stack and the data-analytics stack of a target are not
\* deployed while the target's data-identity approval is Pending.
Inv_C4_IdentityBehindApproval ==
  \A t \in AllTargets :
    (\E ph \in PhaseSet :
        \/ <<"identity-stack", ph>> \in applied[t]
        \/ <<"data-analytics-stack", ph>> \in applied[t])
      => gate[DataIdentityGate(t)] = "Approved"

\* C5: a DR target has one shared gate, the only `pre` step of its core,
\* storage, insights and cross-cutting waves; once it is Approved the
\* deployment of each of these waves starts when the execution reaches it.
Inv_C5_SharedGateUnlocks ==
  \A p \in Pipelines : p.isDrPipeline =>
    \A t \in TargetsOf(p) : \A i \in 1..4 :
      LET k == WaveIndex(p, t, WaveOrder[i])
      IN  /\ Pre(p, k) = {SharedGate(t)}
          /\ (gate[SharedGate(t)] = "Approved" /\ status[p.id] = "running" /\ pos[p.id] = k)
                => \E s \in StackNames : CanApply(p, k, s)

Wit_C5 ==
  \E t \in DrTargets :
    /\ Completed(t, "cross-cutting")
    /\ gate[DataIdentityGate(t)] = "Pending"

----------------------------------------------------------------------------
\* The pipeline whose loops create target t.
PipelineOf(t) == CHOOSE p \in Pipelines : t \in TargetsOf(p)

TargetFailed(t) == \E p \in Pipelines : failure[p.id].target = t

\* The execution waits at a wave of target t whose approvals are not all given.
ParkedOnGate(t) ==
  LET p == PipelineOf(t)
  IN  /\ status[p.id] = "running"
      /\ pos[p.id] \in DOMAIN Waves(p)
      /\ Waves(p)[pos[p.id]].target = t
      /\ \E g \in Pre(p, pos[p.id]) : gate[g] = "Pending"

\* Phase i is the next one of target t: the earlier ones are complete, it is not.
IsNextPhase(t, i) ==
  /\ ~Completed(t, WaveOrder[i])
  /\ \A j \in DOMAIN WaveOrder : j < i => Completed(t, WaveOrder[j])

\* C6: a failed deployment of target A, or A waiting for an approval, does
\* not keep another target B from proceeding: when B's rollout has been
\* triggered, B has not failed and the approvals of B's next wave are given,
\* that wave can be deployed.
Inv_C6_TargetsIndependent ==
  \A A, B \in AllTargets :
    (A # B /\ (TargetFailed(A) \/ ParkedOnGate(A))) =>
      \A i \in DOMAIN WaveOrder :
        LET q == PipelineOf(B)
            k == WaveIndex(q, B, WaveOrder[i])
        IN  ( /\ status[q.id] # "idle"
              /\ ~TargetFailed(B)
              /\ IsNextPhase(B, i)
              /\ \A g \in Pre(q, k) : gate[g] = "Approved" )
            => \E s \in StackNames : CanApply(q, k, s)

----------------------------------------------------------------------------
Halted(p) == failure[p.id] # NoFailure

\* What a halted rollout looks like: it stopped at the wave of the failing
\* stack, which the report names; the target's earlier phases are deployed
\* and none of its later phases is.
HaltedShape(p) ==
  Halted(p) =>
    LET t == failure[p.id].target
        ph == failure[p.id].phase
    IN  /\ status[p.id] = "failed"
        /\ t \in TargetsOf(p)
        /\ ph \in PhaseSet
        /\ failure[p.id].stack \in StageStacks(ph)
        /\ <<failure[p.id].stack, ph>> \notin applied[t]
        /\ pos[p.id] = WaveIndex(p, t, ph)
        /\ \A i, j \in DOMAIN WaveOrder :
             (WaveOrder[i] = ph /\ j < i) => Completed(t, WaveOrder[j])
        /\ \A i, j \in DOMAIN WaveOrder :
             (WaveOrder[i] = ph /\ j > i) =>
               \A s \in StackNames : <<s, WaveOrder[j]>> \notin applied[t]

\* C7: a failed stack deployment halts the target's rollout at that wave:
\* from then on, whatever is approved, nothing more of the pipeline's targets
\* is deployed, what was deployed stays deployed, and the report keeps
\* naming the target, the wave and the failing stack.
Prop_C7_FailureHalts ==
  [][ \A p \in Pipelines :
        /\ HaltedShape(p)'
        /\ Halted(p) =>
             /\ failure'[p.id] = failure[p.id]
             /\ \A t \in TargetsOf(p) : applied'[t] = applied[t] ]_vars

Wit_C7 ==
  \E p \in Pipelines :
    /\ failure[p.id].phase = "storage"
    /\ failure[p.id].target.env = "dev"
    /\ \A g \in GatesOf(p) : gate[g] = "Approved"

\* C8: the deployment of the wave at which the execution stands can start if
\* and only if every approval among its `pre` steps is Approved; that of a
\* wave without `pre` steps always can.
Inv_C8_CanProceed ==
  \A p \in Pipelines : \A k \in DOMAIN Waves(p) :
    (status[p.id] = "running" /\ pos[p.id] = k) =>
      ( (\E s \in StackNames : CanApply(p, k, s))
          <=> (\A g \in Pre(p, k) : gate[g] = "Approved") )

Wit_C8 ==
  \E p \in Pipelines :
    /\ p.isDrPipeline
    /\ status[p.id] = "running"
    /\ pos[p.id] \in DOMAIN Waves(p)
    /\ Waves(p)[pos[p.id]].phase = "data-identity"
    /\ gate[SharedGate(Waves(p)[pos[p.id]].target)] = "Approved"
    /\ gate[DataIdentityGate(Waves(p)[pos[p.id]].target)] = "Pending"

\* C9: approve is idempotent: a second approve of a gate changes nothing,
\* approving an Approved gate is accepted and changes nothing, and approve
\* touches nothing but the gate.
Prop_C9_ApproveIdempotent ==
  [][ \A p \in Pipelines : \A g \in GatesOf(p) :
        Approve(p, g) =>
          /\ ApproveGate(gate', g) = gate'
          /\ (gate[g] = "Approved" => gate' = gate)
          /\ (ENABLED Approve(p, g))'
          /\ UNCHANGED <<status, pos, done, applied, failure>> ]_vars

Wit_C9 ==
  \E p \in Pipelines : \E g \in GatesOf(p) :
    /\ gate[g] = "Approved"
    /\ status[p.id] = "running"
    /\ ENABLED Approve(p, g)

\* C10: a gate changes only from Pending to Approved and only by approve;
\* deployments, failures and triggers leave every gate as it is, and a wave
\* whose gate was not approved is not deployed.
Prop_C10_GateMonotone ==
  [][ /\ \A g \in Gates :
           gate'[g] # gate[g] =>
             /\ gate[g] = "Pending"
             /\ gate'[g] = "Approved"
             /\ \E p \in Pipelines : Approve(p, g)
      /\ (applied' # applied \/ failure' # failure \/ status' # status)
           => gate' = gate
      /\ \A p \in Pipelines : \A k \in DOMAIN Waves(p) :
           (pos[p.id] = k /\ (done'[p.id] # done[p.id] \/ pos'[p.id] # k \/ failure'[p.id] # failure[p.id]))
             => \A g \in Pre(p, k) : gate[g] = "Approved" ]_vars

Wit_C10 ==
  \E p \in Pipelines :
    /\ status[p.id] = "failed"
    /\ \E g \in GatesOf(p) : gate[g] = "Approved"
    /\ \E g \in GatesOf(p) : gate[g] = "Pending"

----------------------------------------------------------------------------
(* Target resolution: main.ts and the loops of the CICDPipelineStack        *)
(* constructor.  One synthesis reads process.env, creates the hosted-zone   *)
(* stack of every environment and then, in the pipeline stack, one stage     *)
(* environment per (environment, region) pair.                              *)

EnvVars ==
  {"CDK_DEFAULT_ACCOUNT", "CDK_PIPELINE_ACCOUNT",
   "CDK_DEV_ACCOUNT", "CDK_TEST_ACCOUNT", "CDK_PROD_ACCOUNT"}

\* The account number an operator would export in variable v.
AccountOf(v) ==
  CASE v = "CDK_DEFAULT_ACCOUNT" -> "111111111111"
    [] v = "CDK_PIPELINE_ACCOUNT" -> "222222222222"
    [] v = "CDK_DEV_ACCOUNT" -> "333333333333"
    [] v = "CDK_TEST_ACCOUNT" -> "444444444444"
    [] v = "CDK_PROD_ACCOUNT" -> "555555555555"

\* A variable is unset, set to the empty string, or set to an account number.
ProcEnvs == { pe \in [EnvVars -> {Undefined, "", "111111111111", "222222222222",
                                  "333333333333", "444444444444", "555555555555"}] :
                \A v \in EnvVars : pe[v] \in {Undefined, "", AccountOf(v)} }

\* value !== undefined ? value : fallback
ensureDefined(value, fallback) == IF value # Undefined THEN value ELSE fallback

\* obj[key]: undefined for a key the object does not have.
Lookup(obj, key) == IF key \in DOMAIN obj THEN obj[key] ELSE Undefined

defaultAccount(pe) == ensureDefined(pe["CDK_DEFAULT_ACCOUNT"], "123456789012")

pipelineAccountId(pe) == ensureDefined(pe["CDK_PIPELINE_ACCOUNT"], defaultAccount(pe))

workloadAccountIds(pe) ==
  [ e \in {"dev", "test", "prod"} |->
      ensureDefined(
        pe[CASE e = "dev" -> "CDK_DEV_ACCOUNT"
             [] e = "test" -> "CDK_TEST_ACCOUNT"
             [] e = "prod" -> "CDK_PROD_ACCOUNT"],
        defaultAccount(pe)) ]

\* main.ts, environments.forEach: the account of the hosted-zone stack.
hostedZoneAccountId(pe, env) ==
  ensureDefined(Lookup(workloadAccountIds(pe), env), defaultAccount(pe))

\* props.deploymentRegions || ["eu-west-1"]
deploymentRegions(pr) ==
  IF pr.deploymentRegions.defined THEN pr.deploymentRegions.value ELSE <<"eu-west-1">>

\* props.deploymentEnvironments || ["dev"]
deploymentEnvironments(pr) ==
  IF pr.deploymentEnvironments.defined THEN pr.deploymentEnvironments.value ELSE <<"dev">>

\* props.workloadAccountIds?.[env]
workloadEntry(pe, pr, env) ==
  IF pr.workloadAccountIds THEN Lookup(workloadAccountIds(pe), env) ELSE Undefined

\* this.account of the pipeline stack: main.ts passes env.account = pipelineAccountId.
thisAccount(pe) == pipelineAccountId(pe)

\* const accountId = props.workloadAccountIds?.[env] || this.account
accountId(pe, pr, env) ==
  IF Truthy(workloadEntry(pe, pr, env))
    THEN workloadEntry(pe, pr, env)
    ELSE thisAccount(pe)

\* The sequences over S without repetition.
NoDupSeqs(S) ==
  UNION { { q \in [1..n -> S] : \A a, b \in 1..n : a # b => q[a] # q[b] } :
            n \in 1..Cardinality(S) }

AllRegions == {primaryRegion} \cup { drRegions[i] : i \in DOMAIN drRegions }

\* The props a pipeline stack may be constructed with.
PropsSet ==
  [ deploymentRegions :
      {[defined |-> FALSE, value |-> <<>>]}
        \cup { [defined |-> TRUE, value |-> q] : q \in NoDupSeqs(AllRegions) },
    deploymentEnvironments :
      {[defined |-> FALSE, value |-> <<>>]}
        \cup { [defined |-> TRUE, value |-> q] :
                 q \in NoDupSeqs({ environments[i] : i \in DOMAIN environments }) },
    workloadAccountIds : BOOLEAN ]

\* A synthesis starts: the configuration is read and nothing is constructed yet.
ResolverInit ==
  /\ procEnv \in ProcEnvs
  /\ props \in PropsSet
  /\ rpc = "zones"
  /\ zi = 1
  /\ ei = 1
  /\ ri = 1
  /\ zones = <<>>
  /\ targets = <<>>
  /\ prevTargets = <<>>
  /\ resolves = 1

\* main.ts, environments.forEach: new HostedZoneStack(app, `${env}-hosted-zone-stack`, ...)
CreateHostedZone ==
  /\ rpc = "zones"
  /\ zi \in DOMAIN environments
  /\ zones' = Append(zones,
                [ env |-> environments[zi],
                  account |-> hostedZoneAccountId(procEnv, environments[zi]),
                  region |-> primaryRegion ])
  /\ zi' = zi + 1
  /\ rpc' = IF zi = Len(environments) THEN "targets" ELSE "zones"
  /\ UNCHANGED <<procEnv, props, ei, ri, targets, prevTargets, resolves>>

\* The loops nested the other way round: regions outside, environments inside.
AddTargetRegionMajor ==
  LET E == deploymentEnvironments(props)
      R == deploymentRegions(props)
  IN  /\ rpc = "targets"
      /\ targets' = Append(targets,
                      [ env |-> E[ei], region |-> R[ri],
                        account |-> accountId(procEnv, props, E[ei]) ])
      /\ ei' = IF ei < Len(E) THEN ei + 1 ELSE 1
      /\ ri' = IF ei < Len(E) THEN ri ELSE ri + 1
      /\ rpc' = IF ei = Len(E) /\ ri = Len(R) THEN "done" ELSE "targets"
      /\ UNCHANGED <<procEnv, props, zi, zones, prevTargets, resolves>>

\* One iteration of deploymentEnvironments.forEach / deploymentRegions.forEach:
\* the stage environment of (env, region) with its account.
AddTarget ==
  LET E == deploymentEnvironments(props)
      R == deploymentRegions(props)
  IN  /\ rpc = "targets"
      /\ targets' = Append(targets,
                      [ env |-> E[ei], region |-> R[ri],
                        account |-> accountId(procEnv, props, E[ei]) ])
      /\ ri' = IF ri < Len(R) THEN ri + 1 ELSE 1
      /\ ei' = IF ri < Len(R) THEN ei ELSE ei + 1
      /\ rpc' = IF ei = Len(E) /\ ri = Len(R) THEN "done" ELSE "targets"
      /\ UNCHANGED <<procEnv, props, zi, zones, prevTargets, resolves>>

\* The application is synthesized again from the same configuration.
SynthAgain ==
  /\ rpc = "done"
  /\ resolves < MaxResolves
  /\ prevTargets' = targets
  /\ targets' = <<>>
  /\ zones' = <<>>
  /\ zi' = 1
  /\ ei' = 1
  /\ ri' = 1
  /\ rpc' = "zones"
  /\ resolves' = resolves + 1
  /\ UNCHANGED <<procEnv, props>>

ResolverNext ==
  \/ CreateHostedZone /\ UNCHANGED <<vars, fvars, dvars, tvars>>
  \/ AddTarget /\ UNCHANGED <<vars, fvars, dvars, tvars>>
  \/ SynthAgain /\ UNCHANGED <<vars, fvars, dvars, tvars>>

ResolverStart == Init /\ ResolverInit /\ FailoverIdle /\ DnsEmpty /\ TaggerIdle

SpecResolver == ResolverStart /\ [][ResolverNext]_allvars

----------------------------------------------------------------------------
\* The (environment, region) pair of a target.
PairOf(t) == [env |-> t.env, region |-> t.region]

\* C11: a finished synthesis holds exactly one target per (environment,
\* region) pair of the configured lists, |environments| x |regions| in all
\* (6 for 2 environments and 3 regions), environment-major and region-minor,
\* and a second synthesis of the same configuration gives the same list.
Inv_C11_TargetList ==
  rpc = "done" =>
    LET E == deploymentEnvironments(props)
        R == deploymentRegions(props)
    IN  /\ Len(targets) = Len(E) * Len(R)
        /\ (Len(E) = 2 /\ Len(R) = 3) => Len(targets) = 6
        /\ \A i \in DOMAIN E : \A j \in DOMAIN R :
             PairOf(targets[(i - 1) * Len(R) + j]) = [env |-> E[i], region |-> R[j]]
        /\ \A i \in DOMAIN E : \A j \in DOMAIN R :
             Cardinality({ k \in DOMAIN targets :
                             PairOf(targets[k]) = [env |-> E[i], region |-> R[j]] }) = 1
        /\ [ k \in DOMAIN targets |-> PairOf(targets[k]) ]
             = Targets([deploymentEnvironments |-> E, deploymentRegions |-> R])
        /\ resolves > 1 => targets = prevTargets

Wit_C11 ==
  /\ rpc = "done"
  /\ resolves = 2
  /\ Len(deploymentEnvironments(props)) = 2
  /\ Len(deploymentRegions(props)) = 3
  /\ Len(targets) = 6
  /\ targets[2].env = targets[1].env
  /\ targets[2].region # targets[1].region

\* The mapping has a usable entry for env / a usable default account exists.
HasEntry(env) == Truthy(workloadEntry(procEnv, props, env))

HasDefault == Truthy(thisAccount(procEnv))

\* C12: a target's account is the mapping's entry for its environment when
\* there is one, otherwise the default account, and when there is neither the
\* resolution fails with ConfigurationError and no target is planned.
Inv_C12_AccountPrecedence ==
  /\ \A k \in DOMAIN targets :
       LET env == targets[k].env
       IN  /\ HasEntry(env) => targets[k].account = workloadEntry(procEnv, props, env)
           /\ (~HasEntry(env) /\ HasDefault) => targets[k].account = thisAccount(procEnv)
  /\ rpc \in {"targets", "done"} =>
       \A i \in DOMAIN deploymentEnvironments(props) :
         (~HasEntry(deploymentEnvironments(props)[i]) /\ ~HasDefault) =>
           /\ rpc = "ConfigurationError"
           /\ targets = <<>>

\* C13: every planned pair has exactly one account, and no target and no
\* hosted-zone stack is created with an empty account.
Inv_C13_NoEmptyAccount ==
  /\ \A a, b \in DOMAIN targets :
       PairOf(targets[a]) = PairOf(targets[b]) => targets[a].account = targets[b].account
  /\ \A k \in DOMAIN targets : Truthy(targets[k].account)
  /\ \A k \in DOMAIN zones : Truthy(zones[k].account)

----------------------------------------------------------------------------
(* Failover routing: the Route 53 health check and failover record every    *)
(* IoTStack declares.  All records of one environment share the name        *)
(* iot-<env>.example.com; the record of the primary region is PRIMARY, the  *)
(* others are SECONDARY, and each is bound to the health check of its own   *)
(* stack.  Route 53 answers a query for the name from the current status of *)
(* the health checks.                                                       *)

\* failureThreshold of IoTEndpointHealthCheck: the number of consecutive
\* probes an endpoint must pass or fail for its status to change.
failureThreshold == 3

\* The regions whose record is PRIMARY / SECONDARY.
Primaries == { r \in AllRegions : failover(r, PRIMARY_REGION) = "PRIMARY" }

Secondaries == { r \in AllRegions : failover(r, PRIMARY_REGION) = "SECONDARY" }

\* The regions whose health check reports healthy in status function h.
HealthyIn(h) == { r \in AllRegions : h[r].healthy }

\* One passing probe makes an unhealthy endpoint healthy again.
probeFastRecovery(h, ok) ==
  IF ok
    THEN [healthy |-> TRUE, streak |-> 0]
    ELSE IF ~h.healthy
           THEN [healthy |-> FALSE, streak |-> 0]
           ELSE IF h.streak + 1 = failureThreshold
                  THEN [healthy |-> FALSE, streak |-> 0]
                  ELSE [healthy |-> TRUE, streak |-> h.streak + 1]

\* The status changes one probe late.
probeSlowDegrade(h, ok) ==
  IF ok = h.healthy
    THEN [healthy |-> h.healthy, streak |-> 0]
    ELSE IF h.streak = failureThreshold
           THEN [healthy |-> ~h.healthy, streak |-> 0]
           ELSE [healthy |-> h.healthy, streak |-> h.streak + 1]

\* The health check after one more probe result: the status changes when
\* failureThreshold consecutive probes contradict it, in either direction.
probe(h, ok) ==
  IF ok = h.healthy
    THEN [healthy |-> h.healthy, streak |-> 0]
    ELSE IF h.streak + 1 = failureThreshold
           THEN [healthy |-> ~h.healthy, streak |-> 0]
           ELSE [healthy |-> h.healthy, streak |-> h.streak + 1]

\* The latest failureThreshold probe results.
Latest(q) ==
  IF Len(q) <= failureThreshold THEN q ELSE SubSeq(q, Len(q) - failureThreshold + 1, Len(q))

\* The answer stays on a healthy secondary once it is there.
answersSticky(healthy, cur) ==
  IF cur \in Secondaries \cap healthy
    THEN {cur}
    ELSE IF Primaries \cap healthy # {}
           THEN Primaries
           ELSE IF Secondaries \cap healthy # {}
                  THEN Secondaries \cap healthy
                  ELSE Primaries

\* A failed primary is answered with any secondary.
answersAnySecondary(healthy, cur) ==
  IF Primaries \cap healthy # {}
    THEN Primaries
    ELSE IF Secondaries \cap healthy # {}
           THEN Secondaries
           ELSE Primaries

\* With no healthy record the previous answer is kept.
answersRetain(healthy, cur) ==
  IF Primaries \cap healthy # {}
    THEN Primaries
    ELSE IF Secondaries \cap healthy # {}
           THEN Secondaries \cap healthy
           ELSE {cur}

\* The records Route 53 may answer with, given the set of healthy records:
\* the PRIMARY record while it is healthy, else a healthy SECONDARY record
\* (the records carry nothing that ranks one secondary before another), and
\* the PRIMARY record again when no record is healthy.
answers(healthy, cur) ==
  IF Primaries \cap healthy # {}
    THEN Primaries
    ELSE IF Secondaries \cap healthy # {}
           THEN Secondaries \cap healthy
           ELSE Primaries

\* The records exist, every health check starts healthy and the name
\* resolves to the primary record.
FailoverInit ==
  /\ domain \in { domainName(environments[i]) : i \in DOMAIN environments }
  /\ PRIMARY_REGION \in {Undefined, ""} \cup AllRegions
  /\ health = [r \in AllRegions |-> [healthy |-> TRUE, streak |-> 0]]
  /\ hist = [r \in AllRegions |-> <<>>]
  /\ route \in { r \in AllRegions : isPrimaryRegion(r, PRIMARY_REGION) }
  /\ derivedFrom = "none"

\* The probe result is counted, the status of the health check is left for
\* a later step.
ProbeCountsOnly(r, ok) ==
  /\ health' = [health EXCEPT ![r] = [healthy |-> @.healthy, streak |-> probe(@, ok).streak]]
  /\ hist' = [hist EXCEPT ![r] = Latest(Append(@, ok))]
  /\ derivedFrom' = "none"
  /\ UNCHANGED <<domain, PRIMARY_REGION, route>>

\* One probe of the health check of region r (requestInterval: 30 s) passes
\* or fails.
Probe(r, ok) ==
  /\ health' = [health EXCEPT ![r] = probe(@, ok)]
  /\ hist' = [hist EXCEPT ![r] = Latest(Append(@, ok))]
  /\ derivedFrom' = "none"
  /\ UNCHANGED <<domain, PRIMARY_REGION, route>>

\* The routing is derived from the current status of the health checks.
Derive ==
  /\ route' \in answers(HealthyIn(health), route)
  /\ derivedFrom' = route
  /\ UNCHANGED <<domain, PRIMARY_REGION, health, hist>>

FailoverNext ==
  \/ \E r \in AllRegions : \E ok \in BOOLEAN :
       Probe(r, ok) /\ UNCHANGED <<vars, rvars, dvars, tvars>>
  \/ Derive /\ UNCHANGED <<vars, rvars, dvars, tvars>>

\* The hosted zone of the domain and the health check and record set of every
\* region's IoTStack are deployed.
DnsDeployed ==
  \E i \in DOMAIN environments :
    /\ domain = domainName(environments[i])
    /\ hostedZones = { [zone |-> HostedZoneOf(environments[i]), hostedZoneId |-> 1] }
    /\ healthChecks =
         { IoTEndpointHealthCheck(IotStacks[[env |-> environments[i], region |-> r]].info) :
             r \in AllRegions }
    /\ records =
         { IoTEndpointRecord(
             IotStacks[[env |-> environments[i], region |-> r]].info,
             [zone |-> HostedZoneOf(environments[i]), hostedZoneId |-> 1],
             PRIMARY_REGION) : r \in AllRegions }

FailoverStart == Init /\ ResolverIdle /\ FailoverInit /\ DnsDeployed /\ TaggerIdle

SpecFailover == FailoverStart /\ [][FailoverNext]_allvars

----------------------------------------------------------------------------
(* Vocabulary of the failover properties *)

\* The health checks that report healthy now.
Healthy == HealthyIn(health)

\* A full window of probe results that all failed / all passed.
AllFailed(q) == Len(q) = failureThreshold /\ \A i \in DOMAIN q : ~q[i]

AllPassed(q) == Len(q) = failureThreshold /\ \A i \in DOMAIN q : q[i]

\* C14: a derivation that runs while the PRIMARY endpoint is healthy ends
\* with the route on PRIMARY, whatever the route was and whatever the health
\* of the secondaries; it does not stay on a healthy secondary.
Prop_C14_PrimaryAffinity ==
  [][ (Derive /\ Primaries \cap Healthy # {}) => route' \in Primaries ]_fvars

Wit_C14 ==
  /\ derivedFrom \in Secondaries \cap Healthy
  /\ route \in Primaries \cap Healthy

Inv_C16_DeterministicSelection ==
  \A a, b \in AllRegions :
    ( /\ ENABLED (Derive /\ route' = a)
      /\ ENABLED (Derive /\ route' = b) ) => a = b

\* C17 as claimed: a derivation that runs while no endpoint is healthy leaves
\* the route as it was.
Prop_C17_RetainLastRoute ==
  [][ (Derive /\ Healthy = {}) => route' = route ]_fvars

\* C17: a derivation that runs while no endpoint is healthy ends with the
\* route on PRIMARY: the route is not cleared, the health checks are left
\* alone and the derivation stays possible.
Prop_C17_PrimaryWhenNoneHealthy ==
  [][ (Derive /\ Healthy = {}) =>
        /\ route' \in Primaries
        /\ route \in Primaries => route' = route
        /\ UNCHANGED <<health, hist>>
        /\ (ENABLED Derive)' ]_fvars

Wit_C17 ==
  /\ Healthy = {}
  /\ derivedFrom \in Secondaries
  /\ route \in Primaries

\* C18: a derivation that follows a derivation with no probe in between
\* changes no record: the route stays and the health checks stay.
Prop_C18_DeriveIdempotent ==
  [][ (Derive /\ derivedFrom # "none") =>
        /\ route' = route
        /\ UNCHANGED <<health, hist>> ]_fvars

\* C19 as claimed: an endpoint is unhealthy exactly when its latest
\* failureThreshold probes all failed.
Inv_C19_UnhealthyIffLatestFailed ==
  \A r \in AllRegions : ~health[r].healthy <=> AllFailed(hist[r])

\* C19: a healthy endpoint becomes unhealthy exactly when its latest
\* failureThreshold probes all failed, an unhealthy one becomes healthy
\* exactly when its latest failureThreshold probes all passed, a status
\* change resets the count, and a probe changes no route.
Prop_C19_Threshold ==
  [][ /\ \A r \in AllRegions :
           /\ (health[r].healthy /\ ~health'[r].healthy)
                <=> (health[r].healthy /\ AllFailed(hist'[r]))
           /\ (~health[r].healthy /\ health'[r].healthy)
                <=> (~health[r].healthy /\ AllPassed(hist'[r]))
           /\ health'[r].healthy # health[r].healthy => health'[r].streak = 0
           /\ health'[r].streak < failureThreshold
      /\ (health' # health \/ hist' # hist) => route' = route ]_fvars

Wit_C19 ==
  /\ \E r \in AllRegions : ~health[r].healthy /\ hist[r] = <<FALSE, TRUE, TRUE>>
  /\ \E r \in AllRegions : health[r].healthy /\ hist[r] = <<TRUE, FALSE, FALSE>>

\* C20 as claimed: once the primary's latest 3 probes failed and a secondary
\* is healthy, the next derivation ends on a healthy secondary; once the
\* primary's latest probe passed, the next derivation ends on PRIMARY.
Prop_C20_FailoverScenario ==
  [][ Derive => \A p \in Primaries :
        /\ (AllFailed(hist[p]) /\ Secondaries \cap Healthy # {})
             => route' \in Secondaries \cap Healthy
        /\ (hist[p] # <<>> /\ hist[p][Len(hist[p])]) => route' = p ]_fvars

\* C20: once the primary's latest 3 probes failed and a secondary is healthy,
\* the next derivation ends on a healthy secondary; once the primary's latest
\* 3 probes passed, the next derivation ends on PRIMARY.
Prop_C20_FailoverRecovery ==
  [][ Derive => \A p \in Primaries :
        /\ (AllFailed(hist[p]) /\ Secondaries \cap Healthy # {})
             => route' \in Secondaries \cap Healthy
        /\ AllPassed(hist[p]) => route' = p ]_fvars

Wit_C20 ==
  /\ derivedFrom \in Secondaries
  /\ route \in Primaries
  /\ AllPassed(hist[route])
  /\ Secondaries \cap Healthy # {}

----------------------------------------------------------------------------
(* Vocabulary of the DNS properties *)

EnvironmentSet == { environments[i] : i \in DOMAIN environments }

\* The record sets that carry the domain name of environment env.
RecordsOf(env) == { r \in records : r.name = domainName(env) }

\* The hosted zones of the domain name of environment env.
ZonesOf(env) == { z \in hostedZones : z.zone.zoneName = domainName(env) }

\* The IoTStack of target t has been deployed.
IotStackApplied(t) == <<"iot-stack", "core">> \in applied[t]

\* C21: whatever PRIMARY_REGION is set to and however far the primary and DR
\* rollouts have come, a domain that has record sets has exactly one record
\* set annotated PRIMARY, next to any number of SECONDARY ones.
Inv_C21_OnePrimaryRecord ==
  \A env \in EnvironmentSet :
    RecordsOf(env) # {} =>
      Cardinality({ r \in RecordsOf(env) : r.failover = "PRIMARY" }) = 1

\* C22: a deployment of an environment's hosted-zone stack, the first or a
\* repeated one, leaves exactly one hosted zone for the environment, the one
\* main.ts declares in the primary region; repeated, it changes nothing and
\* stays possible; the lookups of the IoTStacks of any region create no zone.
Prop_C22_OneHostedZone ==
  [][ /\ \A env \in EnvironmentSet :
           /\ Cardinality(ZonesOf(env))' <= 1
           /\ DeployHostedZoneStack(env) =>
                /\ Cardinality(ZonesOf(env))' = 1
                /\ \A z \in ZonesOf(env)' :
                     z.zone = HostedZoneOf(env) /\ z.zone.region = primaryRegion
                /\ ZonesOf(env) # {} => hostedZones' = hostedZones
                /\ (ENABLED DeployHostedZoneStack(env))'
      /\ (\E p \in Pipelines : \E s \in StackNames : ApplyOk(p, s))
           => hostedZones' = hostedZones ]_dvars

Wit_C22 ==
  /\ \A env \in EnvironmentSet : Cardinality(ZonesOf(env)) = 1
  /\ \E t \in DrTargets : IotStackApplied(t) /\ RecordsOf(t.env) # {}
  /\ \A env \in EnvironmentSet : ENABLED DeployHostedZoneStack(env)

----------------------------------------------------------------------------
\* The target whose wave the execution of pipeline p stands at.
CurrentTarget(p) == Plan[p.id][pos[p.id]].target

----------------------------------------------------------------------------
----------------------------------------------------------------------------
\* The targets of the pipeline without DR approval (STANDARD mode).
StandardTargets == TargetsOf(PrimaryPipeline)

\* Target t has completed the core, storage, insights and cross-cutting waves
\* and its execution waits for the data-identity approval.
AtDataIdentityGate(t) ==
  /\ \A i \in 1..4 : Completed(t, WaveOrder[i])
  /\ ~Started(t, "data-identity")
  /\ ParkedOnGate(t)
  /\ gate[DataIdentityGate(t)] = "Pending"

\* An approval was issued, a deployment failed or the rollout was cancelled.
Interrupted ==
  \/ \E g \in Gates : gate[g] = "Approved"
  \/ \E p \in Pipelines : status[p.id] \in {"failed", "cancelled"}

\* C25: once the STANDARD rollout runs, with no approval issued and every
\* deployment succeeding, every STANDARD target comes to stand at its
\* data-identity approval with its first four waves complete; and once that
\* approval is given there, the target's data-identity wave completes too,
\* unless a deployment fails or the rollout is cancelled.
Prop_C25_StandardProgress ==
  \A t \in StandardTargets :
    /\ (status[PrimaryPipeline.id] = "running")
         ~> (AtDataIdentityGate(t) \/ Interrupted)
    /\ ( /\ \A i \in 1..4 : Completed(t, WaveOrder[i])
         /\ status[PrimaryPipeline.id] = "running"
         /\ Waves(PrimaryPipeline)[pos[PrimaryPipeline.id]].target = t
         /\ gate[DataIdentityGate(t)] = "Approved" )
         ~> ( \/ Completed(t, "data-identity")
              \/ status[PrimaryPipeline.id] \in {"failed", "cancelled"} )

----------------------------------------------------------------------------
\* In the deployment record a, every stack of wave j of pipeline p has been
\* deployed by that wave.
WaveComplete(a, p, j) ==
  \A s \in Plan[p.id][j].stacks :
    <<s, Plan[p.id][j].phase>> \in a[Plan[p.id][j].target]

\* C26: each wave is a barrier over its stacks, whatever the order in which
\* they deploy: a deployment of a wave ends, well or badly, only when every
\* stack of every earlier wave of the pipeline has been deployed and none has
\* failed; the execution moves on exactly when the last stack of its wave has
\* been deployed; and after a failed stack it never moves on, whichever other
\* stacks of the wave were deployed.
Prop_C26_WaveBarrier ==
  [][ \A p \in Pipelines :
        LET k == pos[p.id]
        IN  /\ (\E s \in StackNames : ApplyOk(p, s) \/ ApplyFail(p, s)) =>
                 /\ \A j \in 1..(k - 1) : WaveComplete(applied, p, j)
                 /\ failure[p.id] = NoFailure
                 /\ canProceed(p, k)
            /\ pos'[p.id] # k =>
                 /\ pos'[p.id] = k + 1
                 /\ WaveComplete(applied', p, k)
                 /\ failure'[p.id] = NoFailure
            /\ ( /\ k \in DOMAIN Plan[p.id]
                 /\ WaveComplete(applied', p, k)
                 /\ ~WaveComplete(applied, p, k) )
                 => pos'[p.id] = k + 1
            /\ failure[p.id] # NoFailure =>
                 /\ pos'[p.id] = k
                 /\ \A u \in TargetsOf(p) : applied'[u] = applied[u] ]_vars

Wit_C26 ==
  \E p \in Pipelines :
    /\ failure[p.id].phase = "insights"
    /\ failure[p.id].target.env = "prod"
    /\ Cardinality(done[p.id]) = 1
    /\ pos[p.id] < Len(Plan[p.id])

----------------------------------------------------------------------------
\* C27: whenever a record set or a health check of an environment's domain
\* exists, or the IoTStack of one of its targets has been deployed, the hosted
\* zone of that environment exists, and the record set lies in that zone.
Inv_C27_ZoneBeforeRecords ==
  /\ \A r \in records :
       \E z \in hostedZones :
         z.zone.zoneName = r.name /\ z.hostedZoneId = r.hostedZoneId
  /\ \A h \in healthChecks : \E z \in hostedZones : z.zone.zoneName = h.fqdn
  /\ \A t \in AllTargets : IotStackApplied(t) => ZonesOf(t.env) # {}

Wit_C27 ==
  /\ \E t \in DrTargets : IotStackApplied(t) /\ RecordsOf(t.env) # {}
  /\ \E env \in EnvironmentSet : ZonesOf(env) = {}

----------------------------------------------------------------------------
\* C28: within one target no two waves deploy a stack of the same name: the
\* deployments of a target that carry one stack name belong to one wave.
Inv_C28_OneWavePerStack ==
  \A t \in AllTargets : \A d1, d2 \in applied[t] :
    stackName(t, d1[1]) = stackName(t, d2[1]) => d1[2] = d2[2]

----------------------------------------------------------------------------
\* C29: for every configured environment and region the environment name the
\* IoTStack recovers from its stack name is the configured one, so that the
\* record set a deployed IoTStack has written carries the name of, and lies
\* in, the hosted zone main.ts declares for that environment.
Inv_C29_EnvNameRoundTrip ==
  \A t \in AllTargets :
    /\ IotStacks[t].info.envName = t.env
    /\ domainName(IotStacks[t].info.envName) = HostedZoneOf(t.env).zoneName
    /\ IotStackApplied(t) =>
         \E r \in records : \E z \in hostedZones :
           /\ r.setIdentifier = t.env \o "-" \o t.region \o "-endpoint"
           /\ r.name = "iot-" \o t.env \o ".example.com"
           /\ z.zone = HostedZoneOf(t.env)
           /\ z.zone.zoneName = r.name
           /\ z.hostedZoneId = r.hostedZoneId

Wit_C29 ==
  \E t \in AllTargets :
    /\ t.env = "prod"
    /\ t.region = "eu-west-2"
    /\ IotStackApplied(t)
    /\ \E r \in records : r.setIdentifier = "prod-eu-west-2-endpoint"

----------------------------------------------------------------------------
(* Device tagger: the Lambda handler of DeviceTaggerConstruct, invoked with  *)
(* an EventBridge event for a CloudTrail record of the IoT registry.  Each   *)
(* await of the handler is one step: the call is sent and its outcome is     *)
(* known.                                                                    *)

\* The events the handler may be invoked with: event.detail present or not,
\* detail.eventName, detail.requestParameters present or not, its thingName
\* and its attributePayload.attributes.tenantId (undefined when any part of
\* that path is missing).
Events ==
  { e \in [ detail : BOOLEAN,
            eventName : {Undefined, "", "CreateThing", "UpdateThing", "DeleteThing"},
            requestParameters : BOOLEAN,
            thingName : {Undefined, "", "acme-sensor1", "sensor1"},
            attributeTenantId : {Undefined, "", "globex"} ] :
      /\ ~e.detail => (e.eventName = Undefined /\ ~e.requestParameters)
      /\ ~e.requestParameters =>
           (e.thingName = Undefined /\ e.attributeTenantId = Undefined) }

\* What DescribeThing may answer: it throws, or it returns the thing with its
\* attributes.tenantId (undefined when the thing has no such attribute).
DescribeOutcomes ==
  {[throws |-> TRUE, tenantId |-> Undefined]}
    \cup { [throws |-> FALSE, tenantId |-> v] : v \in {Undefined, "", "initech"} }

\* return { statusCode, body }
Return(code, text) == [statusCode |-> code, body |-> text]

\* The handler is invoked with some event.
TaggerInit ==
  /\ event \in Events
  /\ hpc = "start"
  /\ thingName = Undefined
  /\ tenantId = Undefined
  /\ calls = <<>>
  /\ result = [statusCode |-> 0]

\* From the entry of the handler to its first await or return: the checks of
\* the event and the tenantId taken from the event's attributes.
Start ==
  /\ hpc = "start"
  /\ UNCHANGED <<event, calls>>
  /\ IF ~event.detail \/ ~Truthy(event.eventName)
       THEN /\ result' = Return(400, "Invalid event format")
            /\ hpc' = "returned"
            /\ UNCHANGED <<thingName, tenantId>>
       ELSE IF event.eventName \in {"CreateThing", "UpdateThing"}
         THEN IF ~event.requestParameters \/ ~Truthy(event.thingName)
                THEN /\ result' = Return(400, "Missing thing name in event")
                     /\ hpc' = "returned"
                     /\ UNCHANGED <<thingName, tenantId>>
                ELSE /\ thingName' = event.thingName
                     /\ UNCHANGED result
                     /\ IF Truthy(event.attributeTenantId)
                          THEN tenantId' = event.attributeTenantId /\ hpc' = "tag"
                          ELSE UNCHANGED tenantId /\ hpc' = "describe"
         ELSE /\ result' = Return(400, "Unsupported event type")
              /\ hpc' = "returned"
              /\ UNCHANGED <<thingName, tenantId>>

\* The tenantId when the thing has none: the part of the thing name before
\* its first "-", or "unknown".
FallbackTenantId(name) ==
  IF Len(split(name, "-")) > 1 THEN split(name, "-")[1] ELSE "unknown"

\* A failed lookup is treated like a thing without tenantId.
DescribeThingSwallowsError(d) ==
  /\ hpc = "describe"
  /\ calls' = Append(calls, [op |-> "DescribeThing", ok |-> ~d.throws])
  /\ tenantId' = IF Truthy(d.tenantId) THEN d.tenantId ELSE FallbackTenantId(thingName)
  /\ hpc' = "tag"
  /\ UNCHANGED <<event, thingName, result>>

\* await iotClient.send(describeCommand) and the rest of the try block, or
\* the catch block.
DescribeThing(d) ==
  /\ hpc = "describe"
  /\ calls' = Append(calls, [op |-> "DescribeThing", ok |-> ~d.throws])
  /\ UNCHANGED <<event, thingName>>
  /\ IF d.throws
       THEN /\ result' = Return(500, "Error describing thing")
            /\ hpc' = "returned"
            /\ UNCHANGED tenantId
       ELSE /\ tenantId' = IF Truthy(d.tenantId) THEN d.tenantId
                             ELSE FallbackTenantId(thingName)
            /\ hpc' = "tag"
            /\ UNCHANGED result

\* await iotClient.send(tagCommand): it returns, or it throws into the catch
\* block of the second try.
TagResource(ok) ==
  /\ hpc = "tag"
  /\ calls' = Append(calls, [op |-> "TagResource", ok |-> ok])
  /\ UNCHANGED <<event, thingName, tenantId>>
  /\ IF ok
       THEN hpc' = "metric" /\ UNCHANGED result
       ELSE hpc' = "returned" /\ result' = Return(500, "Error processing device data")

\* await cloudWatchClient.send(metricCommand) and the return that follows.
PutMetricData(ok) ==
  /\ hpc = "metric"
  /\ calls' = Append(calls, [op |-> "PutMetricData", ok |-> ok])
  /\ hpc' = "returned"
  /\ result' = IF ok THEN Return(200, "Device tagged successfully")
                     ELSE Return(500, "Error processing device data")
  /\ UNCHANGED <<event, thingName, tenantId>>

TaggerNext ==
  \/ Start /\ UNCHANGED <<vars, rvars, fvars, dvars>>
  \/ \E d \in DescribeOutcomes : DescribeThing(d) /\ UNCHANGED <<vars, rvars, fvars, dvars>>
  \/ \E ok \in BOOLEAN : TagResource(ok) /\ UNCHANGED <<vars, rvars, fvars, dvars>>
  \/ \E ok \in BOOLEAN : PutMetricData(ok) /\ UNCHANGED <<vars, rvars, fvars, dvars>>

TaggerStart == Init /\ ResolverIdle /\ FailoverIdle /\ DnsEmpty /\ TaggerInit

SpecTagger == TaggerStart /\ [][TaggerNext]_allvars

----------------------------------------------------------------------------
\* The handler has sent the call op / the call op it sent has succeeded.
Sent(op) == \E i \in DOMAIN calls : calls[i].op = op

Succeeded(op) == \E i \in DOMAIN calls : calls[i].op = op /\ calls[i].ok

\* The event is a CreateThing or UpdateThing event with a thing name.
WellFormed(e) ==
  /\ e.detail
  /\ e.eventName \in {"CreateThing", "UpdateThing"}
  /\ e.requestParameters
  /\ e.thingName \notin {Undefined, ""}

====
